---- MODULE Spec2Model ----
(***************************************************************************)
(* MEGAETH 2048: the on-chain game ledger (contracts/MEGAETH2048.sol) and  *)
(* the board library it calls (contracts/LibBoard.sol).                    *)
(*                                                                         *)
(* A board is the uint128 word of the contract viewed as its 16 tile       *)
(* fields: a tuple of 16 exponents, tile index i (0..15) at position i+1.  *)
(* The all-zero word is the tuple of 16 zeros (EmptyBoard).                *)
(*                                                                         *)
(* keccak256 is modelled by what the contract relies on: a deterministic,  *)
(* collision-free function of its packed input.  The opening hash of four  *)
(* boards is the 4-tuple itself; the seed of (gameId, moveNumber) is an    *)
(* injective pairing of the two.                                           *)
(*                                                                         *)
(* The blockNumber field of the MoveConfirmed event is data of the         *)
(* execution environment that no operation reads; events are recorded      *)
(* without it.                                                             *)
(*                                                                         *)
(* The web client's get and post (src/utils/client.ts) are one retry loop  *)
(* around fetch; a call is the record `request`, its attempts and delays   *)
(* are kept in request.log.  The retries option is counted in halves.      *)
(***************************************************************************)
EXTENDS Integers, Sequences, FiniteSets, TLC

VARIABLES state, gameHashOf, moveConfirmed, events, lastCall, probe, request,
          gas, hook

vars == <<state, gameHashOf, moveConfirmed, events, lastCall, probe, request,
          gas, hook>>

ledgerVars == <<state, gameHashOf, moveConfirmed, events>>

\* the state of the web client
clientVars == <<request, gas, hook>>

----------------------------------------------------------------------------
(* Bounds of the model *)

\* calls are explored until this many of them have succeeded
MaxCalls == 3

\* largest retries option passed to get and post
MaxRetries == 3

\* largest base fee and gas price the network reports, in gwei
MaxFeeGwei == 3

\* calls of resetNonceAndBalance, initializeGameTransaction and
\* playNewMoveTransaction in a session
MaxOps == 4

\* stride of the injective pairing that stands for keccak256(gameId, moveNumber)
SeedStride == 16

\* the low-order disambiguator of a game identifier ranges over 0..IdLowSpace-1
IdLowSpace == 2

----------------------------------------------------------------------------
(* Board library: BoardCodec, MoveSimulator, SpawnOracle, TransitionValidator *)

UP == 0

DOWN == 1

LEFT == 2

RIGHT == 3

Moves == {UP, DOWN, LEFT, RIGHT}

EmptyBoard == [i \in 1..16 |-> 0]

\* exponent stored at tile index pos (0..15)
getTile(board, pos) == board[pos + 1]

\* board with the field of tile index pos replaced
setTile(board, pos, value) == [board EXCEPT ![pos + 1] = value]

isEmpty(board, pos) == getTile(board, pos) = 0

CellOrder == <<0, 1, 2, 3, 4, 5, 6, 7, 8, 9, 10, 11, 12, 13, 14, 15>>

\* tile indices (0..15) of the empty cells, in increasing index order
emptyCells(board) == SelectSeq(CellOrder, LAMBDA pos : isEmpty(board, pos))

tileCount(board) == Cardinality({pos \in 0..15 : ~isEmpty(board, pos)})

\* tile indices of line k (0..3) of the move axis, leading edge first
lineCells(move, k) ==
    CASE move = UP    -> <<k, k + 4, k + 8, k + 12>>
      [] move = DOWN  -> <<k + 12, k + 8, k + 4, k>>
      [] move = LEFT  -> <<4 * k, 4 * k + 1, 4 * k + 2, 4 * k + 3>>
      [] move = RIGHT -> <<4 * k + 3, 4 * k + 2, 4 * k + 1, 4 * k>>

Occupied(e) == e # 0

\* the non-empty exponents of a line, in the direction of travel
compactLine(line) == SelectSeq(line, Occupied)

\* a merge that consumes one of the two equal tiles only
RECURSIVE mergeTiles_sourceKept(_)
mergeTiles_sourceKept(tiles) ==
    IF Len(tiles) = 0 THEN <<>>
    ELSE IF Len(tiles) >= 2 /\ tiles[1] = tiles[2]
         THEN <<tiles[1] + 1>> \o mergeTiles_sourceKept(Tail(tiles))
         ELSE <<tiles[1]>> \o mergeTiles_sourceKept(Tail(tiles))

\* a merge whose product merges again with the tile that follows it
RECURSIVE mergeTiles_chain(_)
mergeTiles_chain(tiles) ==
    IF Len(tiles) < 2 THEN tiles
    ELSE IF tiles[1] = tiles[2]
         THEN mergeTiles_chain(<<tiles[1] + 1>> \o SubSeq(tiles, 3, Len(tiles)))
         ELSE <<tiles[1]>> \o mergeTiles_chain(Tail(tiles))

\* pairwise merge from the leading edge; a merged tile is not merged again
RECURSIVE mergeTiles(_)
mergeTiles(tiles) ==
    IF Len(tiles) = 0 THEN <<>>
    ELSE IF Len(tiles) >= 2 /\ tiles[1] = tiles[2]
         THEN <<tiles[1] + 1>> \o mergeTiles(SubSeq(tiles, 3, Len(tiles)))
         ELSE <<tiles[1]>> \o mergeTiles(Tail(tiles))

\* number of merges mergeTiles performs
RECURSIVE mergeCount(_)
mergeCount(tiles) ==
    IF Len(tiles) = 0 THEN 0
    ELSE IF Len(tiles) >= 2 /\ tiles[1] = tiles[2]
         THEN 1 + mergeCount(SubSeq(tiles, 3, Len(tiles)))
         ELSE mergeCount(Tail(tiles))

\* one line after the move: merged tiles against the leading edge, then empties
moveLine(line) ==
    SubSeq(mergeTiles(compactLine(line)) \o <<0, 0, 0, 0>>, 1, 4)

\* the exponents of the cells of a line, leading edge first
tilesAt(board, cells) ==
    <<getTile(board, cells[1]), getTile(board, cells[2]),
      getTile(board, cells[3]), getTile(board, cells[4])>>

\* the exponents of line k of a board, leading edge first
lineOf(board, move, k) == tilesAt(board, lineCells(move, k))

\* the line (0..3) of the move axis that holds tile index pos
lineIndexOf(move, pos) ==
    IF move \in {UP, DOWN} THEN pos % 4 ELSE pos \div 4

\* the place (1..4, leading edge first) of tile index pos on its line
linePlaceOf(move, pos) ==
    CASE move = UP    -> (pos \div 4) + 1
      [] move = DOWN  -> 4 - (pos \div 4)
      [] move = LEFT  -> (pos % 4) + 1
      [] move = RIGHT -> 4 - (pos % 4)

\* the board whose four lines along the move axis are `lines`
boardOfLines(lines, move) ==
    [p \in 1..16 |->
        lines[lineIndexOf(move, p - 1) + 1][linePlaceOf(move, p - 1)]]

\* the board after shift and merge, before the spawn
shiftBoard(board, move) ==
    boardOfLines(<<moveLine(lineOf(board, move, 0)),
                   moveLine(lineOf(board, move, 1)),
                   moveLine(lineOf(board, move, 2)),
                   moveLine(lineOf(board, move, 3))>>, move)

\* number of merges the move performs over the four lines
mergesOf(board, move) ==
    mergeCount(compactLine(lineOf(board, move, 0)))
    + mergeCount(compactLine(lineOf(board, move, 1)))
    + mergeCount(compactLine(lineOf(board, move, 2)))
    + mergeCount(compactLine(lineOf(board, move, 3)))

simulateMove(board, move) ==
    LET shifted == shiftBoard(board, move)
    IN  [board  |-> shifted,
         merged |-> shifted # board,
         empty  |-> emptyCells(shifted)]

\* exponent of the spawned tile: 2 for one seed residue in ten, else 1
spawnExponent(seed) == IF seed % 10 = 9 THEN 2 ELSE 1

\* the cell at place (seed mod number of cells) of the list of empty cells
spawnCell(cells, seed) == cells[(seed % Len(cells)) + 1]

\* the spawn for a board that has an empty cell
chooseSpawn(board, seed) ==
    [index    |-> spawnCell(emptyCells(board), seed),
     exponent |-> spawnExponent(seed)]

\* a move that spawns nothing
applySpawn_noSpawn(shifted, seed) == shifted

\* a post-shift board with its spawn applied
applySpawn(shifted, seed) ==
    setTile(shifted, spawnCell(emptyCells(shifted), seed), spawnExponent(seed))

\* the canonical result of a legal move: shift, merge, spawn
canonicalResult(board, move, seed) == applySpawn(shiftBoard(board, move), seed)

\* whether a post-shift board is a legal outcome of prevBoard and has the
\* claimed board as its canonical spawn
validateShifted(prevBoard, shifted, nextBoard, seed) ==
    /\ shifted # prevBoard
    /\ \E pos \in 0..15 : isEmpty(shifted, pos)
    /\ nextBoard = applySpawn(shifted, seed)

validateTransformation(prevBoard, move, nextBoard, seed) ==
    /\ move \in Moves
    /\ validateShifted(prevBoard, shiftBoard(prevBoard, move), nextBoard, seed)

\* a start check that counts the tiles and ignores their exponents
validateStartPosition_anyExponent(board) == tileCount(board) = 2

validateStartPosition(board) ==
    /\ \A pos \in 0..15 : getTile(board, pos) \in 0..2
    /\ tileCount(board) = 2

----------------------------------------------------------------------------
(* MEGAETH2048: identifiers, seeds, storage *)

\* callers: msg.sender of a transaction, never the zero address
Players == {1, 2}

\* the principal encoded in the high-order bits of a game identifier
playerOf(gameId) == gameId \div IdLowSpace

\* identifiers used by the explored calls: one of player 1 (with a non-zero
\* disambiguator), one of player 2
GameIds == {IdLowSpace + 1, 2 * IdLowSpace}

\* the modifier left off: any caller passes
correctGameId_unchecked(player, gameId) == TRUE

correctGameId(player, gameId) == player = playerOf(gameId)

calculateSeed(gameId, moveNumber) == gameId * SeedStride + moveNumber

\* keccak256(abi.encodePacked(boards)) of the four opening boards
hashBoards(boards) == boards

\* the value of an unset GameState slot
ZeroState == [move |-> 0, nextMove |-> 0, board |-> EmptyBoard]

\* gameHashOf[hash], an unset slot reading as bytes32(0)
gameIdOfHash(hash) ==
    IF hash \in DOMAIN gameHashOf THEN gameHashOf[hash] ELSE 0

nextMove(gameId) == state[gameId].nextMove

latestBoard(gameId) == state[gameId].board

isMoveConfirmed(gameId, moveNumber) == moveNumber \in moveConfirmed[gameId]

\* getBoard filling the array from the last tile down
getBoard_reversed(gameId) ==
    [boardArr       |-> [i \in 0..15 |-> getTile(latestBoard(gameId), 15 - i)],
     nextMoveNumber |-> nextMove(gameId)]

getBoard(gameId) ==
    [boardArr       |-> [i \in 0..15 |-> getTile(latestBoard(gameId), i)],
     nextMoveNumber |-> nextMove(gameId)]

NewGame(player, id, board) ==
    [name |-> "NewGame", player |-> player, id |-> id, move |-> 0, board |-> board]

NewMove(player, id, move, result) ==
    [name |-> "NewMove", player |-> player, id |-> id, move |-> move, board |-> result]

MoveConfirmed(player, id, move) ==
    [name |-> "MoveConfirmed", player |-> player, id |-> id, move |-> move,
     board |-> EmptyBoard]

----------------------------------------------------------------------------
(* Calls explored: the boards and moves a client may submit *)

boardOf(tiles) ==
    [p \in 1..16 |->
        IF \E t \in tiles : t[1] = p - 1
        THEN (CHOOSE t \in tiles : t[1] = p - 1)[2]
        ELSE 0]

\* exponents [1,0,0,0, 0,0,0,0, 0,0,0,0, 0,0,0,1]
StartCorners == boardOf({<<0, 1>>, <<15, 1>>})

\* exponents [1,2,0,0, 0,...]: blocked for UP and LEFT
StartTopRow == boardOf({<<0, 1>>, <<1, 2>>})

\* three tiles
StartThreeTiles == boardOf({<<0, 1>>, <<5, 1>>, <<15, 2>>})

\* a tile of exponent 3
StartBigTile == boardOf({<<0, 1>>, <<15, 3>>})

\* a forged result: the canonical board with the other spawn exponent
forgeSpawn(shifted, seed) ==
    setTile(shifted, spawnCell(emptyCells(shifted), seed), 3 - spawnExponent(seed))

\* what a client submits for a post-shift board: the canonical spawn (the
\* shifted board itself when the move changed nothing), or a forgery
submitShifted(board, shifted, seed, forged) ==
    IF shifted = board
    THEN IF forged THEN setTile(board, 5, getTile(board, 5) + 1) ELSE board
    ELSE IF forged THEN forgeSpawn(shifted, seed) ELSE applySpawn(shifted, seed)

stepResult(board, move, seed, forged) ==
    IF move \in Moves
    THEN submitShifted(board, shiftBoard(board, move), seed, forged)
    ELSE board

\* the opening a client computes for gameId from start board b0 and three
\* moves, forging the result of move `cheatAt` (0: none)
openingFor(gameId, b0, moves, cheatAt) ==
    LET b1 == stepResult(b0, moves[1], calculateSeed(gameId, 1), cheatAt = 1)
        b2 == stepResult(b1, moves[2], calculateSeed(gameId, 2), cheatAt = 2)
        b3 == stepResult(b2, moves[3], calculateSeed(gameId, 3), cheatAt = 3)
    IN  [boards |-> <<b0, b1, b2, b3>>, moves |-> moves]

MovesA == <<LEFT, UP, RIGHT>>

MovesB == <<DOWN, RIGHT, UP>>

Openings ==
    {openingFor(id, StartCorners, MovesA, 0) : id \in GameIds}
    \cup {openingFor(2 * IdLowSpace, StartTopRow, MovesB, 0),
          openingFor(2 * IdLowSpace, StartTopRow, MovesA, 0),
          openingFor(2 * IdLowSpace, StartThreeTiles, MovesA, 0),
          openingFor(2 * IdLowSpace, StartBigTile, MovesA, 0)}
    \cup {openingFor(2 * IdLowSpace, StartCorners, MovesA, k) : k \in 1..3}

\* moves submitted to play: the four directions and one value out of range
PlayMoves == Moves \cup {4}

----------------------------------------------------------------------------
(* MEGAETH2048: startGame and play *)

\* calls that have succeeded so far: each one emits two events
callsCommitted == Len(events) \div 2

\* what a view returns; a mutator returns nothing
NoReturn == [boardArr |-> <<>>, board |-> EmptyBoard, number |-> 0, flag |-> FALSE]

\* a call as the chain records it: its arguments, the require that failed
\* ("ok" when none did), the move numbers whose moveConfirmed slot it stored
\* to, and the value it returned
Call(op, caller, gameId, boards, moves, err) ==
    [op |-> op, caller |-> caller, gameId |-> gameId,
     boards |-> boards, moves |-> moves, err |-> err,
     wrote |-> {}, ret |-> NoReturn]

\* the loop stopping one short: transitions 1 and 2 only
openingTransitionsValid_short(gameId, boards, moves) ==
    \A i \in 1..2 :
        validateTransformation(boards[i], moves[i], boards[i + 1],
                               calculateSeed(gameId, i))

\* the checks of startGame's three transitions (the loop i = 1, 2, 3)
openingTransitionsValid(gameId, boards, moves) ==
    \A i \in 1..3 :
        validateTransformation(boards[i], moves[i], boards[i + 1],
                               calculateSeed(gameId, i))

\* startGame without the GamePlayed check
startGameError_noReplayCheck(caller, gameId, boards, moves) ==
    IF ~correctGameId(caller, gameId) THEN "GamePlayerInvalid"
    ELSE IF state[gameId].board # EmptyBoard THEN "GameIdUsed"
    ELSE IF ~validateStartPosition(boards[1]) THEN "GameBoardInvalid"
    ELSE IF \E i \in 1..3 :
                ~validateTransformation(boards[i], moves[i], boards[i + 1],
                                        calculateSeed(gameId, i))
         THEN "GameBoardInvalid"
    ELSE "ok"

\* startGame without the GameIdUsed check
startGameError_noIdCheck(caller, gameId, boards, moves) ==
    IF ~correctGameId(caller, gameId) THEN "GamePlayerInvalid"
    ELSE IF gameIdOfHash(hashBoards(boards)) # 0 THEN "GamePlayed"
    ELSE IF ~validateStartPosition(boards[1]) THEN "GameBoardInvalid"
    ELSE IF \E i \in 1..3 :
                ~validateTransformation(boards[i], moves[i], boards[i + 1],
                                        calculateSeed(gameId, i))
         THEN "GameBoardInvalid"
    ELSE "ok"

\* startGame without the start-position check
startGameError_noStartCheck(caller, gameId, boards, moves) ==
    IF ~correctGameId(caller, gameId) THEN "GamePlayerInvalid"
    ELSE IF state[gameId].board # EmptyBoard THEN "GameIdUsed"
    ELSE IF gameIdOfHash(hashBoards(boards)) # 0 THEN "GamePlayed"
    ELSE IF \E i \in 1..3 :
                ~validateTransformation(boards[i], moves[i], boards[i + 1],
                                        calculateSeed(gameId, i))
         THEN "GameBoardInvalid"
    ELSE "ok"

\* the require that fails first in startGame, "ok" when none does
startGameError(caller, gameId, boards, moves) ==
    IF ~correctGameId(caller, gameId) THEN "GamePlayerInvalid"
    ELSE IF state[gameId].board # EmptyBoard THEN "GameIdUsed"
    ELSE IF gameIdOfHash(hashBoards(boards)) # 0 THEN "GamePlayed"
    ELSE IF ~validateStartPosition(boards[1]) THEN "GameBoardInvalid"
    ELSE IF ~openingTransitionsValid(gameId, boards, moves) THEN "GameBoardInvalid"
    ELSE "ok"

\* the confirmation loop stopping one short
openingMoveNumbers_short == {1, 2}

\* the move numbers startGame marks confirmed (the loop i = 1, 2, 3)
openingMoveNumbers == {1, 2, 3}

\* startGame storing the number of the last opening move as the next move
startedState_countsFromThree(boards, moves) ==
    [move |-> moves[3], nextMove |-> 3, board |-> boards[4]]

\* startGame storing the first opening board
startedState_firstBoard(boards, moves) ==
    [move |-> moves[3], nextMove |-> 4, board |-> boards[1]]

\* the opening hash recorded alone, the earlier entries dropped
markPlayed_single(hashedBoards, gameId) ==
    [h \in {hashedBoards} |-> gameId]

\* gameHashOf after gameHashOf[hashedBoards] = gameId
markPlayed(hashedBoards, gameId) ==
    [h \in DOMAIN gameHashOf \cup {hashedBoards} |->
        IF h = hashedBoards THEN gameId ELSE gameHashOf[h]]

\* confirmation flags keyed by the move number alone, shared by all games
confirmMoves_allGames(gameId, moveNumbers) ==
    [id \in DOMAIN moveConfirmed |-> moveConfirmed[id] \cup moveNumbers]

\* moveConfirmed after moveConfirmed[gameId][n] = true for each n of moveNumbers
confirmMoves(gameId, moveNumbers) ==
    [moveConfirmed EXCEPT ![gameId] = @ \cup moveNumbers]

\* the GameState startGame stores
startedState(boards, moves) ==
    [move |-> moves[3], nextMove |-> 4, board |-> boards[4]]

startGame(caller, gameId, boards, moves) ==
    LET err == startGameError(caller, gameId, boards, moves)
        hashedBoards == hashBoards(boards)
    IN  /\ lastCall' =
               [Call("startGame", caller, gameId, boards, moves, err) EXCEPT
                   !.wrote = IF err = "ok" THEN openingMoveNumbers ELSE {}]
        /\ IF err = "ok"
           THEN /\ gameHashOf' = markPlayed(hashedBoards, gameId)
                /\ moveConfirmed' = confirmMoves(gameId, openingMoveNumbers)
                /\ state' = [state EXCEPT ![gameId] = startedState(boards, moves)]
                /\ events' = events \o <<NewGame(caller, gameId, boards[4]),
                                         MoveConfirmed(caller, gameId, 3)>>
           ELSE UNCHANGED ledgerVars
        /\ UNCHANGED <<probe, clientVars>>

\* the require of play left off
playValid_unchecked(latestState, gameId, move, resultBoard) == TRUE

\* play validating against the seed of the following move number
playValid_nextSeed(latestState, gameId, move, resultBoard) ==
    validateTransformation(latestState.board, move, resultBoard,
                           calculateSeed(gameId, latestState.nextMove + 1))

\* play validating against the seed of the preceding move number
playValid_staleSeed(latestState, gameId, move, resultBoard) ==
    validateTransformation(latestState.board, move, resultBoard,
                           calculateSeed(gameId, latestState.nextMove - 1))

\* play deriving the seed from the game identifier alone
playValid_idSeed(latestState, gameId, move, resultBoard) ==
    validateTransformation(latestState.board, move, resultBoard,
                           calculateSeed(gameId, 0))

\* play's check of the submitted board against the stored record
playValid(latestState, gameId, move, resultBoard) ==
    validateTransformation(latestState.board, move, resultBoard,
                           calculateSeed(gameId, latestState.nextMove))

\* play without its transition check
playError_unvalidated(caller, gameId, move, resultBoard) ==
    IF ~correctGameId(caller, gameId) THEN "GamePlayerInvalid" ELSE "ok"

\* the require that fails first in play, "ok" when none does
playError(caller, gameId, move, resultBoard) ==
    IF ~correctGameId(caller, gameId) THEN "GamePlayerInvalid"
    ELSE IF ~playValid(state[gameId], gameId, move, resultBoard)
         THEN "GameBoardInvalid"
    ELSE "ok"

\* play storing the move number it loaded
playedState_noAdvance(latestState, move, resultBoard) ==
    [move |-> move, nextMove |-> latestState.nextMove, board |-> resultBoard]

\* play keeping the move stored before
playedState_keepsMove(latestState, move, resultBoard) ==
    [move |-> latestState.move, nextMove |-> latestState.nextMove + 1,
     board |-> resultBoard]

\* the GameState play stores
playedState(latestState, move, resultBoard) ==
    [move |-> move, nextMove |-> latestState.nextMove + 1, board |-> resultBoard]

\* play confirming the move number before the one it loaded
playMoveNumber_previous(latestState) == latestState.nextMove - 1

\* currentMoveNumber of play: the move number it confirms
playMoveNumber(latestState) == latestState.nextMove

play(caller, gameId, move, resultBoard) ==
    LET latestState == state[gameId]
        err == playError(caller, gameId, move, resultBoard)
        currentMoveNumber == playMoveNumber(latestState)
    IN  /\ lastCall' =
               [Call("play", caller, gameId, <<resultBoard>>, <<move>>, err) EXCEPT
                   !.wrote = IF err = "ok" THEN {currentMoveNumber} ELSE {}]
        /\ IF err = "ok"
           THEN /\ state' = [state EXCEPT ![gameId] =
                                 playedState(latestState, move, resultBoard)]
                /\ moveConfirmed' = confirmMoves(gameId, {currentMoveNumber})
                /\ events' = events \o
                       <<NewMove(caller, gameId, move, resultBoard),
                         MoveConfirmed(caller, gameId, currentMoveNumber)>>
                /\ UNCHANGED gameHashOf
           ELSE UNCHANGED ledgerVars
        /\ UNCHANGED <<probe, clientVars>>

----------------------------------------------------------------------------
(* utils/client.ts: get and post, a fetch retried in a loop *)

\* the defaults of the retries and retryDelay options
DefaultRetries == 3

DefaultRetryDelay == 1000

\* the retries option in halves (a JavaScript number need not be whole):
\* negative, fractional and whole values up to MaxRetries
RetriesHalves == (-2)..(2 * MaxRetries)

\* the retryDelay option, in milliseconds
RetryDelays == {0, DefaultRetryDelay, 2000}

\* how one attempt ends: the response is ok and its body parses
\* (response.json() resolves), the response is ok and its body does not
\* parse (response.json() rejects), the response is not ok, fetch rejects
FetchOutcomes == {"json", "badBody", "httpError", "networkError"}

\* the value of lastError before any attempt has failed
Undefined == [attempt |-> -1, kind |-> "undefined"]

\* the error caught in attempt number `attempt`
responseError(attempt, outcome) == [attempt |-> attempt, kind |-> outcome]

\* the parsed body of the response of attempt number `attempt`
responseBody(attempt) == [attempt |-> attempt, kind |-> "body"]

\* no call of get or post under way
NoRequest ==
    [method |-> "none", retriesHalves |-> 0, retryDelay |-> 0, attempt |-> 0,
     phase |-> "idle", log |-> <<>>, lastError |-> Undefined,
     result |-> [kind |-> "pending", value |-> Undefined]]

\* the loop running for one attempt more than the option allows
continueLoop_oneMore(attempt, retriesHalves) == 2 * attempt <= retriesHalves + 2

\* the loop condition attempt <= retries
continueLoop(attempt, retriesHalves) == 2 * attempt <= retriesHalves

\* the catch block never rethrowing
finalAttempt_never(attempt, retriesHalves) == FALSE

\* the test attempt === retries of the catch block
finalAttempt(attempt, retriesHalves) == 2 * attempt = retriesHalves

\* the head of the loop: the next attempt, or throw lastError after the loop
enterLoop(req) ==
    IF continueLoop(req.attempt, req.retriesHalves)
    THEN [req EXCEPT !.phase = "fetching"]
    ELSE [req EXCEPT !.phase = "settled",
                     !.result = [kind |-> "rejected", value |-> req.lastError]]

\* get or post called with its options: the function runs up to its first await
callRequest(method, retriesHalves, retryDelay) ==
    enterLoop([NoRequest EXCEPT !.method = method,
                                !.retriesHalves = retriesHalves,
                                !.retryDelay = retryDelay])

\* the body of the loop from the settling of fetch on: return the parsed
\* body, or catch the error, rethrow it on the last attempt, else start the delay
afterFetch(req, outcome) ==
    IF outcome = "json"
    THEN [req EXCEPT
             !.log = Append(@, [ev |-> "fetch", attempt |-> req.attempt,
                                outcome |-> outcome, delay |-> 0]),
             !.phase = "settled",
             !.result = [kind |-> "resolved", value |-> responseBody(req.attempt)]]
    ELSE IF finalAttempt(req.attempt, req.retriesHalves)
    THEN [req EXCEPT
             !.log = Append(@, [ev |-> "fetch", attempt |-> req.attempt,
                                outcome |-> outcome, delay |-> 0]),
             !.lastError = responseError(req.attempt, outcome),
             !.phase = "settled",
             !.result = [kind |-> "rejected",
                         value |-> responseError(req.attempt, outcome)]]
    ELSE [req EXCEPT
             !.log = Append(@, [ev |-> "fetch", attempt |-> req.attempt,
                                outcome |-> outcome, delay |-> 0]),
             !.lastError = responseError(req.attempt, outcome),
             !.phase = "waiting"]

\* the timer of the delay fires: attempt++ and back to the head of the loop
afterDelay(req) ==
    enterLoop([req EXCEPT
                  !.log = Append(@, [ev |-> "wait", attempt |-> req.attempt,
                                     outcome |-> "none", delay |-> req.retryDelay]),
                  !.attempt = @ + 1])

----------------------------------------------------------------------------
(* hooks/useTransactions.tsx: getCurrentGasPrices *)

\* parseGwei("1"). Fees are bigints in the code; here they are counted in
\* units of 1000 wei, which keeps every value within the checker's integers.
\* The function only adds, doubles, triples and compares fees, so it commutes
\* with the change of unit.
Gwei == 1000000

\* latestBlock.baseFeePerGas of a block that carries none (null)
NoBaseFee == -1

\* the fallback of the catch block with its two fees exchanged
fallbackGasPrices_swapped ==
    [maxFeePerGas |-> 2 * Gwei, maxPriorityFeePerGas |-> 10 * Gwei]

\* what the catch block returns when a network query fails
fallbackGasPrices ==
    [maxFeePerGas |-> 10 * Gwei, maxPriorityFeePerGas |-> 2 * Gwei]

\* latestBlock.baseFeePerGas || parseGwei("1"): null and 0n give 1 gwei
baseFeeOrDefault(blockBaseFee) ==
    IF blockBaseFee = NoBaseFee \/ blockBaseFee = 0 THEN Gwei ELSE blockBaseFee

\* 0.5 gwei under a base fee below 1 gwei, else 2 gwei
priorityFeeFor(baseFeePerGas) ==
    IF baseFeePerGas < Gwei THEN Gwei \div 2 ELSE 2 * Gwei

\* the larger of baseFee * 2 + priority and gasPrice + priority
maxFeeFor(baseFeePerGas, gasPrice, maxPriorityFeePerGas) ==
    IF baseFeePerGas * 2 + maxPriorityFeePerGas > gasPrice + maxPriorityFeePerGas
    THEN baseFeePerGas * 2 + maxPriorityFeePerGas
    ELSE gasPrice + maxPriorityFeePerGas

\* the try block from the answers of getBlock and getGasPrice on
networkGasPrices(blockBaseFee, gasPrice) ==
    IF priorityFeeFor(baseFeeOrDefault(blockBaseFee))
         >= maxFeeFor(baseFeeOrDefault(blockBaseFee), gasPrice,
                      priorityFeeFor(baseFeeOrDefault(blockBaseFee)))
    THEN [maxFeePerGas |-> priorityFeeFor(baseFeeOrDefault(blockBaseFee)) * 3,
          maxPriorityFeePerGas |-> priorityFeeFor(baseFeeOrDefault(blockBaseFee))]
    ELSE [maxFeePerGas |->
              maxFeeFor(baseFeeOrDefault(blockBaseFee), gasPrice,
                        priorityFeeFor(baseFeeOrDefault(blockBaseFee))),
          maxPriorityFeePerGas |-> priorityFeeFor(baseFeeOrDefault(blockBaseFee))]

\* getCurrentGasPrices for the answers of the network: `failed` when getBlock
\* or getGasPrice rejects
getCurrentGasPrices(failed, blockBaseFee, gasPrice) ==
    IF failed THEN fallbackGasPrices ELSE networkGasPrices(blockBaseFee, gasPrice)

\* base fees a block reports: none, 0, one unit, around 1 gwei, whole gwei
BlockBaseFees ==
    {NoBaseFee, 0, 1, Gwei \div 2, Gwei - 1, Gwei + 1}
    \cup {k * Gwei : k \in 1..MaxFeeGwei}

\* gas prices the network reports
GasPrices == {0, 1, Gwei \div 2} \cup {k * Gwei : k \in 1..MaxFeeGwei}

\* no gas query made
NoGasQuery ==
    [failed |-> FALSE, blockBaseFee |-> NoBaseFee, gasPrice |-> 0, applied |-> FALSE,
     prices |-> [maxFeePerGas |-> 0, maxPriorityFeePerGas |-> 0]]

----------------------------------------------------------------------------
(* hooks/useTransactions.tsx: the local nonce and balance, and
   sendRawTransactionAndConfirm.  The hook is the record `hook`: the refs
   userNonce, userBalance, userAddress and walletClient, the calls of
   resetNonceAndBalance in flight (`resets`), the calls of
   initializeGameTransaction and playNewMoveTransaction (`calls`), the
   account's transaction count on the chain (`chainCount`), and `history`,
   the order in which resets completed, nonces were taken and transactions
   were handed to the signer.  An async function runs without interruption
   up to its next await, so each action is the code between two awaits.
   The user is logged in with a privy wallet: the early returns of
   resetNonceAndBalance do not fire.  Balances are counted in units of
   0.0025 ETH. *)

\* 0.01 ETH, the least balance a call goes ahead with
MinBalance == 4

\* parseEther("0.0075"), taken off the local balance by a start
StartCost == 3

\* parseEther("0.005"), taken off the local balance by a move
PlayCost == 2

\* parseFloat(formatEther(balance)) < 0.01
insufficientBalance(balance) == balance < MinBalance

costOf(op) == IF op = "initializeGame" THEN StartCost ELSE PlayCost

\* the nonce field of a call that took none
NoNonce == -1

\* a call before it does anything: `response` is what post gave, `receipt`
\* what waitForTransactionReceipt gave, `shown` the error of the error toast
Tx(op, nonce) ==
    [op |-> op, nonce |-> nonce, phase |-> "entered", toasts |-> <<>>,
     outcome |-> "pending", error |-> "none", shown |-> "none",
     response |-> "none", receipt |-> "none"]

\* a call stopped by the balance check: thrown before any toast
refusedTx(op) ==
    [Tx(op, NoNonce) EXCEPT !.phase = "done", !.outcome = "rejected",
                            !.error = "Signer has insufficient balance."]

\* the catch block without its rethrow
txFailed_swallowed(tx, err) ==
    [tx EXCEPT !.phase = "done", !.outcome = "returned",
               !.toasts = Append(@, "error"), !.shown = err]

\* the catch block and the rethrow after it: error toast, then reject with e
txFailed(tx, err) ==
    [tx EXCEPT !.phase = "done", !.outcome = "rejected", !.error = err,
               !.toasts = Append(@, "error"), !.shown = err]

\* the head of sendRawTransactionAndConfirm, up to its first await
sendEntered(tx, walletClient, userAddress, presetGas) ==
    IF ~walletClient THEN txFailed(tx, "Wallet not found.")
    ELSE IF ~userAddress THEN txFailed(tx, "Privy user not found.")
    ELSE IF presetGas THEN [tx EXCEPT !.phase = "signing"]
    ELSE [tx EXCEPT !.phase = "preparing"]

\* signTransaction settled
afterSign(tx, signed) ==
    IF signed THEN [tx EXCEPT !.phase = "posting"] ELSE txFailed(tx, "signer")

\* post settled: rejected after its retries, an answer with error, or a hash
afterPost(tx, response) ==
    IF response = "rejected"
    THEN txFailed([tx EXCEPT !.response = response], "network")
    ELSE IF response = "error"
    THEN txFailed([tx EXCEPT !.response = response], "rpc")
    ELSE [tx EXCEPT !.response = response, !.phase = "confirming",
                    !.toasts = Append(@, "info")]

\* waitForTransactionReceipt settled
afterReceipt(tx, receipt) ==
    IF receipt = "rejected"
    THEN txFailed([tx EXCEPT !.receipt = receipt], "receipt")
    ELSE IF receipt = "reverted"
    THEN txFailed([tx EXCEPT !.receipt = receipt], "Failed to confirm transaction")
    ELSE [tx EXCEPT !.receipt = receipt, !.phase = "done",
                    !.outcome = "returned", !.toasts = Append(@, "success")]

\* the local nonce left unchanged by a call
nextNonce_kept(nonce) == nonce

\* userNonce.current = nonce + 1
nextNonce(nonce) == nonce + 1

\* history entries
Reset(nonce) == [kind |-> "reset", nonce |-> nonce, call |-> 0]
Take(nonce, call) == [kind |-> "take", nonce |-> nonce, call |-> call]
Sign(nonce, call) == [kind |-> "sign", nonce |-> nonce, call |-> call]

\* the history after call number `call` has run to its first await
enteredHistory(history, tx, call) ==
    IF tx.phase = "signing"
    THEN history \o <<Take(tx.nonce, call), Sign(tx.nonce, call)>>
    ELSE Append(history, Take(tx.nonce, call))

\* initializeGameTransaction / playNewMoveTransaction up to the first await
beginTx(h, op) ==
    IF insufficientBalance(h.userBalance)
    THEN [h EXCEPT !.calls = Append(@, refusedTx(op))]
    ELSE [h EXCEPT
           !.userNonce = nextNonce(h.userNonce),
           !.userBalance = h.userBalance - costOf(op),
           !.calls = Append(@, sendEntered(Tx(op, h.userNonce), h.walletClient,
                                           h.userAddress, h.presetGas)),
           !.history = enteredHistory(@,
                           sendEntered(Tx(op, h.userNonce), h.walletClient,
                                       h.userAddress, h.presetGas),
                           Len(h.calls) + 1)]

\* balances getBalance reports
ChainBalances == {4, 9}

\* the hook as useTransactions creates it
NoHook ==
    [userNonce |-> 0, userBalance |-> 0, userAddress |-> FALSE,
     walletClient |-> FALSE, presetGas |-> FALSE, chainCount |-> 0,
     resets |-> <<>>, calls |-> <<>>, history |-> <<>>]

NoCall == Call("none", 0, 0, <<>>, <<>>, "ok")

NoProbe == [board |-> EmptyBoard, move |-> 0, gameId |-> 0, nextMove |-> 0,
            accepted |-> {}, applied |-> FALSE,
            startValid |-> FALSE, startChecked |-> FALSE]

Init ==
    /\ state = [id \in GameIds |-> ZeroState]
    /\ gameHashOf = <<>>
    /\ moveConfirmed = [id \in GameIds |-> {}]
    /\ events = <<>>
    /\ lastCall = NoCall
    /\ probe = NoProbe
    /\ request = NoRequest
    /\ gas = NoGasQuery
    /\ hook = NoHook

StartGameCall ==
    /\ callsCommitted < MaxCalls
    /\ \E caller \in Players, gameId \in GameIds, o \in Openings :
           startGame(caller, gameId, o.boards, o.moves)

PlayCall ==
    /\ callsCommitted < MaxCalls
    /\ \E caller \in Players, gameId \in GameIds, move \in PlayMoves,
          forged \in BOOLEAN :
           play(caller, gameId, move,
                stepResult(state[gameId].board, move,
                           calculateSeed(gameId, state[gameId].nextMove), forged))

\* a view: it has no require and no store and does not read msg.sender, so
\* the call records no caller
view(op, gameId, moves, ret) ==
    /\ lastCall' = [Call(op, 0, gameId, <<>>, moves, "ok") EXCEPT !.ret = ret]
    /\ UNCHANGED <<ledgerVars, probe, clientVars>>

\* move numbers asked of isMoveConfirmed
ReadMoveNumbers == 0..(MaxCalls + 3)

GetBoardCall ==
    \E gameId \in GameIds :
        view("getBoard", gameId, <<>>,
             [NoReturn EXCEPT !.boardArr = getBoard(gameId).boardArr,
                              !.number = getBoard(gameId).nextMoveNumber])

LatestBoardCall ==
    \E gameId \in GameIds :
        view("latestBoard", gameId, <<>>,
             [NoReturn EXCEPT !.board = latestBoard(gameId)])

NextMoveCall ==
    \E gameId \in GameIds :
        view("nextMove", gameId, <<>>,
             [NoReturn EXCEPT !.number = nextMove(gameId)])

IsMoveConfirmedCall ==
    \E gameId \in GameIds, moveNumber \in ReadMoveNumbers :
        view("isMoveConfirmed", gameId, <<moveNumber>>,
             [NoReturn EXCEPT !.flag = isMoveConfirmed(gameId, moveNumber)])

Next ==
    \/ StartGameCall
    \/ PlayCall
    \/ GetBoardCall
    \/ LatestBoardCall
    \/ NextMoveCall
    \/ IsMoveConfirmedCall

Spec == Init /\ [][Next]_vars

----------------------------------------------------------------------------
(* The transition check of play applied to chosen boards, moves and seeds *)

\* full board, no two equal neighbours: blocked in every direction
FullBlocked == <<1, 2, 1, 2,  2, 1, 2, 1,  1, 2, 1, 2,  2, 1, 2, 1>>

\* full board, one equal pair in row 0: LEFT and RIGHT merge, UP and DOWN are blocked
FullOnePair == <<1, 1, 2, 3,  2, 3, 1, 2,  1, 2, 3, 1,  2, 1, 2, 3>>

\* lines that could chain-merge
ChainRows == <<1, 1, 1, 1,  2, 2, 0, 0,  1, 1, 2, 0,  0, 0, 0, 0>>

\* blocked for LEFT and UP only
TopLeftPacked == <<1, 2, 0, 0,  2, 1, 0, 0,  0, 0, 0, 0,  0, 0, 0, 0>>

\* a row of three equal tiles, and a row with a gap between two equal tiles
ChainGaps == <<1, 1, 1, 0,  0, 2, 0, 2,  0, 0, 0, 0,  0, 0, 0, 0>>

\* start candidates: one tile, two tiles of exponent 2, a tile of the largest
\* exponent a tile field holds
StartOneTile == boardOf({<<5, 1>>})

StartTwoFours == boardOf({<<3, 2>>, <<12, 2>>})

StartHugeTile == boardOf({<<0, 1>>, <<15, 255>>})

\* large exponents
BigTiles == <<10, 10, 0, 11,  0, 0, 0, 0,  0, 0, 0, 0,  11, 0, 0, 12>>

ProbeBoards ==
    {EmptyBoard, StartCorners, StartTopRow, FullBlocked, FullOnePair,
     ChainRows, TopLeftPacked, BigTiles, ChainGaps, StartOneTile,
     StartTwoFours, StartHugeTile, StartThreeTiles, StartBigTile}

\* identifiers of the probed records: those of the explored calls and the
\* zero identifier, whose seeds are the move numbers themselves
ProbeGameIds == GameIds \cup {0}

ProbeMoveNumbers == 0..(MaxCalls + 3)

\* a board with one more tile of exponent 1 or 2 in an empty cell
spawnsOn(board) ==
    {setTile(board, pos, e) : pos \in {q \in 0..15 : isEmpty(board, q)}, e \in {1, 2}}

\* the result boards tried against a board and a move: the board itself, the
\* shifted board, and each of them with any one spawned tile
candidateResults(board, move) ==
    LET shifted == IF move \in Moves THEN shiftBoard(board, move) ELSE board
    IN  {board, shifted} \cup spawnsOn(board) \cup spawnsOn(shifted)

ProbeInit ==
    /\ state = [id \in GameIds |-> ZeroState]
    /\ gameHashOf = <<>>
    /\ moveConfirmed = [id \in GameIds |-> {}]
    /\ events = <<>>
    /\ lastCall = NoCall
    /\ request = NoRequest
    /\ gas = NoGasQuery
    /\ hook = NoHook
    /\ \E board \in ProbeBoards, move \in PlayMoves, gameId \in ProbeGameIds,
          n \in ProbeMoveNumbers :
           probe = [board |-> board, move |-> move, gameId |-> gameId,
                    nextMove |-> n, accepted |-> {}, applied |-> FALSE,
                    startValid |-> FALSE, startChecked |-> FALSE]

\* play's check run on every candidate result for the probed record
ProbeValidate ==
    /\ ~probe.applied
    /\ probe' = [probe EXCEPT
           !.applied = TRUE,
           !.accepted =
               {r \in candidateResults(probe.board, probe.move) :
                   playValid([move |-> 0, nextMove |-> probe.nextMove,
                              board |-> probe.board],
                             probe.gameId, probe.move, r)}]
    /\ UNCHANGED <<ledgerVars, lastCall, clientVars>>

\* startGame's check of boards[0] run on the probed board
ProbeStartPosition ==
    /\ ~probe.startChecked
    /\ probe' = [probe EXCEPT
           !.startChecked = TRUE,
           !.startValid = validateStartPosition(probe.board)]
    /\ UNCHANGED <<ledgerVars, lastCall, clientVars>>

ProbeNext == ProbeValidate \/ ProbeStartPosition

SpecBoard == ProbeInit /\ [][ProbeNext]_vars

----------------------------------------------------------------------------
(* One call of get or post, its attempts settled by the network *)

ClientInit ==
    /\ state = [id \in GameIds |-> ZeroState]
    /\ gameHashOf = <<>>
    /\ moveConfirmed = [id \in GameIds |-> {}]
    /\ events = <<>>
    /\ lastCall = NoCall
    /\ probe = NoProbe
    /\ request = NoRequest
    /\ gas = NoGasQuery
    /\ hook = NoHook

\* the options of a call: retries and retryDelay given or left to their defaults
RequestOptions ==
    {[retriesHalves |-> r, retryDelay |-> d] :
        r \in RetriesHalves \cup {2 * DefaultRetries}, d \in RetryDelays}

GetCall ==
    /\ request.phase = "idle"
    /\ \E o \in RequestOptions :
           request' = callRequest("GET", o.retriesHalves, o.retryDelay)
    /\ UNCHANGED <<ledgerVars, lastCall, probe, gas, hook>>

PostCall ==
    /\ request.phase = "idle"
    /\ \E o \in RequestOptions :
           request' = callRequest("POST", o.retriesHalves, o.retryDelay)
    /\ UNCHANGED <<ledgerVars, lastCall, probe, gas, hook>>

FetchSettles ==
    /\ request.phase = "fetching"
    /\ \E outcome \in FetchOutcomes : request' = afterFetch(request, outcome)
    /\ UNCHANGED <<ledgerVars, lastCall, probe, gas, hook>>

DelayElapses ==
    /\ request.phase = "waiting"
    /\ request' = afterDelay(request)
    /\ UNCHANGED <<ledgerVars, lastCall, probe, gas, hook>>

ClientNext == GetCall \/ PostCall \/ FetchSettles \/ DelayElapses

SpecClient == ClientInit /\ [][ClientNext]_vars

----------------------------------------------------------------------------
(* getCurrentGasPrices applied to the answers of the network *)

GasInit ==
    /\ state = [id \in GameIds |-> ZeroState]
    /\ gameHashOf = <<>>
    /\ moveConfirmed = [id \in GameIds |-> {}]
    /\ events = <<>>
    /\ lastCall = NoCall
    /\ probe = NoProbe
    /\ request = NoRequest
    /\ hook = NoHook
    /\ \E failed \in BOOLEAN, blockBaseFee \in BlockBaseFees, gasPrice \in GasPrices :
           gas = [NoGasQuery EXCEPT !.failed = failed,
                                    !.blockBaseFee = blockBaseFee,
                                    !.gasPrice = gasPrice]

GetCurrentGasPrices ==
    /\ ~gas.applied
    /\ gas' = [gas EXCEPT
           !.applied = TRUE,
           !.prices = getCurrentGasPrices(gas.failed, gas.blockBaseFee, gas.gasPrice)]
    /\ UNCHANGED <<ledgerVars, lastCall, probe, request, hook>>

GasNext == GetCurrentGasPrices

SpecGas == GasInit /\ [][GasNext]_vars

----------------------------------------------------------------------------
(* One session of useTransactions *)

\* the caller hands gas and fees to sendRawTransactionAndConfirm (the earlier
\* version of the hook) or leaves them to be queried
HookInit ==
    /\ state = [id \in GameIds |-> ZeroState]
    /\ gameHashOf = <<>>
    /\ moveConfirmed = [id \in GameIds |-> {}]
    /\ events = <<>>
    /\ lastCall = NoCall
    /\ probe = NoProbe
    /\ request = NoRequest
    /\ gas = NoGasQuery
    /\ \E presetGas \in BOOLEAN : hook = [NoHook EXCEPT !.presetGas = presetGas]

hookStep(h) ==
    /\ hook' = h
    /\ UNCHANGED <<ledgerVars, lastCall, probe, request, gas>>

\* the effect that fetches the provider sets walletClient
WalletReady ==
    /\ ~hook.walletClient
    /\ hookStep([hook EXCEPT !.walletClient = TRUE])

\* resetNonceAndBalance up to await getTransactionCount
ResetCalled ==
    /\ Len(hook.resets) + Len(hook.calls) < MaxOps
    /\ hookStep([hook EXCEPT !.resets = Append(@, [phase |-> "count", nonce |-> 0])])

\* getTransactionCount resolves with the count of the latest block
ResetCounted ==
    \E r \in DOMAIN hook.resets :
        /\ hook.resets[r].phase = "count"
        /\ hookStep([hook EXCEPT !.resets[r] =
                        [phase |-> "balance", nonce |-> hook.chainCount]])

\* getBalance resolves: the three refs are written
ResetDone ==
    \E r \in DOMAIN hook.resets, balance \in ChainBalances :
        /\ hook.resets[r].phase = "balance"
        /\ hookStep([hook EXCEPT
               !.resets[r].phase = "done",
               !.userNonce = hook.resets[r].nonce,
               !.userBalance = balance,
               !.userAddress = TRUE,
               !.history = Append(@, Reset(hook.resets[r].nonce))])

InitializeGameTransaction ==
    /\ Len(hook.resets) + Len(hook.calls) < MaxOps
    /\ hookStep(beginTx(hook, "initializeGame"))

PlayNewMoveTransaction ==
    /\ Len(hook.resets) + Len(hook.calls) < MaxOps
    /\ hookStep(beginTx(hook, "playNewMove"))

\* getCurrentGasPrices and estimateGas have resolved (neither rejects):
\* the transaction is handed to the signer
GasPrepared ==
    \E c \in DOMAIN hook.calls :
        /\ hook.calls[c].phase = "preparing"
        /\ hookStep([hook EXCEPT
               !.calls[c].phase = "signing",
               !.history = Append(@, Sign(hook.calls[c].nonce, c))])

SignSettles ==
    \E c \in DOMAIN hook.calls, signed \in BOOLEAN :
        /\ hook.calls[c].phase = "signing"
        /\ hookStep([hook EXCEPT !.calls[c] = afterSign(@, signed)])

\* the node answers with a hash only for a nonce it has not yet used up
PostSettles ==
    \E c \in DOMAIN hook.calls, response \in {"result", "error", "rejected"} :
        /\ hook.calls[c].phase = "posting"
        /\ response = "result" => hook.calls[c].nonce >= hook.chainCount
        /\ hookStep([hook EXCEPT !.calls[c] = afterPost(@, response)])

\* a receipt arrives for the transaction whose nonce is the account's next
ReceiptSettles ==
    \E c \in DOMAIN hook.calls, receipt \in {"success", "reverted", "rejected"} :
        /\ hook.calls[c].phase = "confirming"
        /\ receipt # "rejected" => hook.calls[c].nonce = hook.chainCount
        /\ hookStep([hook EXCEPT
               !.calls[c] = afterReceipt(@, receipt),
               !.chainCount = IF receipt = "rejected" THEN @ ELSE @ + 1])

HookNext ==
    \/ WalletReady
    \/ ResetCalled
    \/ ResetCounted
    \/ ResetDone
    \/ InitializeGameTransaction
    \/ PlayNewMoveTransaction
    \/ GasPrepared
    \/ SignSettles
    \/ PostSettles
    \/ ReceiptSettles

SpecHook == HookInit /\ [][HookNext]_vars

----------------------------------------------------------------------------
(* Properties *)

\* a NewGame event of the identifier is in the log: startGame has succeeded on it
startedInLog(gameId) ==
    \E i \in 1..Len(events) :
        events[i].name = "NewGame" /\ events[i].id = gameId

\* number of NewMove events of the identifier: its successful plays
playsInLog(gameId) ==
    Cardinality({i \in 1..Len(events) :
                    events[i].name = "NewMove" /\ events[i].id = gameId})

\* some tile of the board can shift, or two equal tiles are adjacent, along
\* the axis of the move
legalMove(board, move) ==
    \E k \in 0..3, j \in 1..3 :
        \/ lineOf(board, move, k)[j] = 0 /\ lineOf(board, move, k)[j + 1] # 0
        \/ /\ lineOf(board, move, k)[j] # 0
           /\ lineOf(board, move, k)[j] = lineOf(board, move, k)[j + 1]

\* C1: every startGame or play whose caller is not the principal encoded in
\* the game identifier fails with GamePlayerInvalid and changes no record, no
\* opening-hash entry, no confirmation flag and no event.
C1_WrongCallerRejected ==
    [][(/\ lastCall'.op \in {"startGame", "play"}
        /\ lastCall'.caller # playerOf(lastCall'.gameId))
       => (lastCall'.err = "GamePlayerInvalid" /\ UNCHANGED ledgerVars)]_vars

\* C1 witness: a play by the wrong caller was rejected although the submitted
\* transition validates against the stored record.
C1_Witness ==
    /\ lastCall.op = "play"
    /\ lastCall.caller # playerOf(lastCall.gameId)
    /\ lastCall.err = "GamePlayerInvalid"
    /\ state[lastCall.gameId].nextMove >= 4
    /\ validateTransformation(state[lastCall.gameId].board, lastCall.moves[1],
           lastCall.boards[1],
           calculateSeed(lastCall.gameId, state[lastCall.gameId].nextMove))

\* C2: a play whose submitted transition does not validate against the stored
\* board and the seed of the stored move number is rejected, and the records,
\* the confirmation flags, the opening hashes and the event log stay as they were.
C2_FailedPlayChangesNothing ==
    [][(/\ lastCall'.op = "play"
        /\ ~validateTransformation(state[lastCall'.gameId].board,
               lastCall'.moves[1], lastCall'.boards[1],
               calculateSeed(lastCall'.gameId, state[lastCall'.gameId].nextMove)))
       => (lastCall'.err # "ok" /\ UNCHANGED ledgerVars)]_vars

\* C2 witness: the owner's play on a started game failed validation.
C2_Witness ==
    /\ lastCall.op = "play"
    /\ lastCall.err = "GameBoardInvalid"
    /\ lastCall.caller = playerOf(lastCall.gameId)
    /\ startedInLog(lastCall.gameId)

\* C3 as claimed: a startGame that submits an opening already recorded as
\* played fails with GamePlayed, whatever the identifier it is submitted
\* under (the caller being that identifier's principal).
C3_ReplayAlwaysGamePlayed ==
    [][(/\ lastCall'.op = "startGame"
        /\ lastCall'.caller = playerOf(lastCall'.gameId)
        /\ hashBoards(lastCall'.boards) \in DOMAIN gameHashOf)
       => lastCall'.err = "GamePlayed"]_vars

\* C3 as amended: a startGame that submits an opening already recorded as
\* played fails and changes nothing; it fails with GamePlayerInvalid when the
\* caller is not the identifier's principal, else with GameIdUsed when the
\* identifier already has a game, else with GamePlayed.
C3_ReplayRejected ==
    [][(/\ lastCall'.op = "startGame"
        /\ hashBoards(lastCall'.boards) \in DOMAIN gameHashOf)
       => /\ UNCHANGED ledgerVars
          /\ lastCall'.err =
                IF lastCall'.caller # playerOf(lastCall'.gameId)
                THEN "GamePlayerInvalid"
                ELSE IF startedInLog(lastCall'.gameId) THEN "GameIdUsed"
                ELSE "GamePlayed"]_vars

\* C3 witness: an opening played under one identifier was rejected with
\* GamePlayed under another identifier.
C3_Witness ==
    /\ lastCall.op = "startGame"
    /\ lastCall.err = "GamePlayed"
    /\ hashBoards(lastCall.boards) \in DOMAIN gameHashOf
    /\ gameHashOf[hashBoards(lastCall.boards)] # lastCall.gameId

\* C4 as claimed: a startGame on an identifier that already has a started game
\* fails with GameIdUsed.
C4_RestartAlwaysGameIdUsed ==
    [][(lastCall'.op = "startGame" /\ startedInLog(lastCall'.gameId))
       => lastCall'.err = "GameIdUsed"]_vars

\* C4 as amended: a startGame on an identifier that already has a started game
\* fails and changes nothing: with GameIdUsed when the caller is the
\* identifier's principal, with GamePlayerInvalid otherwise.
C4_RestartRejected ==
    [][(lastCall'.op = "startGame" /\ startedInLog(lastCall'.gameId))
       => /\ UNCHANGED ledgerVars
          /\ lastCall'.err =
                IF lastCall'.caller = playerOf(lastCall'.gameId)
                THEN "GameIdUsed" ELSE "GamePlayerInvalid"]_vars

\* C4 witness: after a successful play on the game, its owner's startGame with
\* an opening never played was rejected with GameIdUsed.
C4_Witness ==
    /\ lastCall.op = "startGame"
    /\ lastCall.err = "GameIdUsed"
    /\ playsInLog(lastCall.gameId) >= 1
    /\ hashBoards(lastCall.boards) \notin DOMAIN gameHashOf

C5_Count ==
    \A id \in GameIds :
        nextMove(id) = IF startedInLog(id) THEN 4 + playsInLog(id) ELSE 0

C5_Step ==
    /\ (lastCall'.op = "startGame" /\ lastCall'.err = "ok")
          => state'[lastCall'.gameId].nextMove = 4
    /\ (lastCall'.op = "play" /\ lastCall'.err = "ok")
          => state'[lastCall'.gameId].nextMove = state[lastCall'.gameId].nextMove + 1
    /\ lastCall'.err # "ok"
          => state'[lastCall'.gameId].nextMove = state[lastCall'.gameId].nextMove
    /\ \A id \in GameIds \ {lastCall'.gameId} :
          state'[id].nextMove = state[id].nextMove

\* C5: nextMove of a game is 4 right after its successful startGame, grows by
\* exactly 1 with each successful play on it, is left alone by failed calls
\* and by calls on other identifiers, and so equals 4 + k after k successful
\* plays.
C5_NextMoveCounts == []C5_Count /\ [][C5_Step]_vars

\* C5 witness: the latest call is a successful play that took its game from
\* move number 4 to 5 while another started game stays at 4.
C5_Witness ==
    /\ lastCall.op = "play"
    /\ lastCall.err = "ok"
    /\ playsInLog(lastCall.gameId) = 1
    /\ nextMove(lastCall.gameId) = 5
    /\ \E other \in GameIds \ {lastCall.gameId} :
          startedInLog(other) /\ nextMove(other) = 4

\* C6: once startGame has succeeded on a game the flags of move numbers 1, 2
\* and 3 are true; after its n-th successful play the flag of move number n is
\* true, and so is the flag of the move number that play validated.
C6_ConfirmationFlags ==
    \A id \in GameIds :
        startedInLog(id) =>
            /\ \A n \in {1, 2, 3} : isMoveConfirmed(id, n)
            /\ \A n \in 1..playsInLog(id) : isMoveConfirmed(id, n)
            /\ \A n \in 1..playsInLog(id) : isMoveConfirmed(id, 3 + n)

\* C6 witness: the latest call is a successful play, whose move number is
\* confirmed, and another game has just its opening moves confirmed.
C6_Witness ==
    /\ lastCall.op = "play"
    /\ lastCall.err = "ok"
    /\ isMoveConfirmed(lastCall.gameId, 3 + playsInLog(lastCall.gameId))
    /\ \E id \in GameIds :
          id # lastCall.gameId /\ startedInLog(id) /\ playsInLog(id) = 0
             /\ isMoveConfirmed(id, 3)

\* C7: for a board and a move with a legal shift or merge, play's check
\* accepts exactly one result board: the shifted board with the spawn chosen
\* by the seed of (identifier, stored move number).
C7_UniqueResult ==
    (probe.applied /\ probe.move \in Moves /\ legalMove(probe.board, probe.move))
    => /\ Cardinality(probe.accepted) = 1
       /\ probe.accepted =
             {canonicalResult(probe.board, probe.move,
                              calculateSeed(probe.gameId, probe.nextMove))}

\* C7 witness: on a full board whose only legal outcome is a merge, one of the
\* candidate results was accepted and the others were not.
C7_Witness ==
    /\ probe.applied
    /\ probe.board = FullOnePair
    /\ probe.move = LEFT
    /\ Cardinality(probe.accepted) = 1
    /\ Cardinality(candidateResults(probe.board, probe.move)) > 2

\* C8: for a board and a move that is blocked in that direction, play's check
\* rejects every candidate result, the unchanged board and the board plus a
\* spawned tile included.
C8_BlockedRejected ==
    (probe.applied /\ probe.move \in Moves /\ ~legalMove(probe.board, probe.move))
    => probe.accepted = {}

\* C8 witness: a blocked move on a board with empty cells, whose candidates
\* include the unchanged board and the board with a spawned tile.
C8_Witness ==
    /\ probe.applied
    /\ probe.board = TopLeftPacked
    /\ probe.move = LEFT
    /\ ~legalMove(probe.board, probe.move)
    /\ probe.board \in candidateResults(probe.board, probe.move)
    /\ setTile(probe.board, 2, 1) \in candidateResults(probe.board, probe.move)
    /\ probe.accepted = {}

\* a check of startGame fails for the call, judged on the state before it
openingRejected(caller, gameId, boards, moves) ==
    \/ caller # playerOf(gameId)
    \/ startedInLog(gameId)
    \/ hashBoards(boards) \in DOMAIN gameHashOf
    \/ ~validateStartPosition(boards[1])
    \/ \E i \in 1..3 :
           ~validateTransformation(boards[i], moves[i], boards[i + 1],
                                   calculateSeed(gameId, i))

\* C9: a startGame one of whose checks fails is rejected and creates no
\* record, records no opening hash, sets no confirmation flag and emits no
\* event; GamePlayed is hit only by an opening that a successful startGame
\* recorded.
C9_StartGameAllOrNothing ==
    [][/\ (/\ lastCall'.op = "startGame"
           /\ openingRejected(lastCall'.caller, lastCall'.gameId,
                              lastCall'.boards, lastCall'.moves))
          => (lastCall'.err # "ok" /\ UNCHANGED ledgerVars)
       /\ (lastCall'.op = "startGame" /\ lastCall'.err = "GamePlayed")
          => \E i \in 1..Len(events) :
                 /\ events[i].name = "NewGame"
                 /\ events[i].board = lastCall'.boards[4]]_vars

\* C9 witness: an opening was rejected for an invalid board and is not
\* recorded as played, and its identifier has no record.
C9_Witness ==
    /\ lastCall.op = "startGame"
    /\ lastCall.err = "GameBoardInvalid"
    /\ hashBoards(lastCall.boards) \notin DOMAIN gameHashOf
    /\ state[lastCall.gameId] = ZeroState
    /\ moveConfirmed[lastCall.gameId] = {}
    /\ Len(events) > 0

\* C10: a startGame that succeeded submitted a valid start position and three
\* transitions each of which validates with the seed of (identifier, i).
C10_StartGameOnlyIfValid ==
    (lastCall.op = "startGame" /\ lastCall.err = "ok")
    => /\ validateStartPosition(lastCall.boards[1])
       /\ \A i \in 1..3 :
             validateTransformation(lastCall.boards[i], lastCall.moves[i],
                 lastCall.boards[i + 1], calculateSeed(lastCall.gameId, i))

\* C10 witness: a startGame by the owner of an unused identifier failed with
\* a valid start position and only its third transition invalid.
C10_Witness ==
    /\ lastCall.op = "startGame"
    /\ lastCall.err = "GameBoardInvalid"
    /\ validateStartPosition(lastCall.boards[1])
    /\ \A i \in 1..2 :
          validateTransformation(lastCall.boards[i], lastCall.moves[i],
              lastCall.boards[i + 1], calculateSeed(lastCall.gameId, i))
    /\ ~validateTransformation(lastCall.boards[3], lastCall.moves[3],
           lastCall.boards[4], calculateSeed(lastCall.gameId, 3))

\* C11: play takes no seed and no previous board from its caller: the owner's
\* play succeeds exactly when the submitted board validates from the board
\* stored in the record before the call, under calculateSeed of the game
\* identifier and the move number stored in that record.
C11_PlayValidatesFromStoredRecord ==
    [][(/\ lastCall'.op = "play"
        /\ lastCall'.caller = playerOf(lastCall'.gameId))
       => (lastCall'.err = "ok"
             <=> validateTransformation(state[lastCall'.gameId].board,
                     lastCall'.moves[1], lastCall'.boards[1],
                     calculateSeed(lastCall'.gameId,
                                   state[lastCall'.gameId].nextMove)))]_vars

\* C11 witness: the second play of a game succeeded: it was validated under
\* the seed of move number 5 and from the board the first play stored.
C11_Witness ==
    /\ lastCall.op = "play"
    /\ lastCall.err = "ok"
    /\ state[lastCall.gameId].nextMove = 6
    /\ state[lastCall.gameId].board = lastCall.boards[1]
    /\ playsInLog(lastCall.gameId) = 2

\* C12: a successful play(gameId, move, resultBoard) stores resultBoard and
\* move in the record and appends to the event log exactly NewMove(caller,
\* gameId, move, resultBoard) followed by MoveConfirmed for the move number
\* the record held before the call.
C12_PlayStoresAndEmits ==
    [][(lastCall'.op = "play" /\ lastCall'.err = "ok")
       => (/\ state'[lastCall'.gameId].board = lastCall'.boards[1]
           /\ state'[lastCall'.gameId].move = lastCall'.moves[1]
           /\ events' = events \o
                  <<[name |-> "NewMove", player |-> lastCall'.caller,
                     id |-> lastCall'.gameId, move |-> lastCall'.moves[1],
                     board |-> lastCall'.boards[1]],
                    [name |-> "MoveConfirmed", player |-> lastCall'.caller,
                     id |-> lastCall'.gameId,
                     move |-> state[lastCall'.gameId].nextMove,
                     board |-> EmptyBoard]>>)]_vars

\* C12 witness: a play succeeded with a move other than the last move of the
\* opening, and the log ends with its NewMove and its MoveConfirmed for move 4.
C12_Witness ==
    /\ lastCall.op = "play"
    /\ lastCall.err = "ok"
    /\ lastCall.moves[1] # MovesA[3]
    /\ state[lastCall.gameId].move = lastCall.moves[1]
    /\ Len(events) = 4
    /\ events[3].name = "NewMove"
    /\ events[4].name = "MoveConfirmed"
    /\ events[4].move = 4

\* C13: a successful startGame(gameId, boards, moves) stores the record with
\* board = boards[3], move = moves[2] and nextMove = 4 (indices from 0),
\* records the hash of the four boards for the game identifier, and emits
\* NewGame(caller, gameId, boards[3]); the events logged before stay.
C13_StartGameStoresAndEmits ==
    [][(lastCall'.op = "startGame" /\ lastCall'.err = "ok")
       => (/\ state'[lastCall'.gameId] =
                  [move |-> lastCall'.moves[3], nextMove |-> 4,
                   board |-> lastCall'.boards[4]]
           /\ lastCall'.boards \in DOMAIN gameHashOf'
           /\ gameHashOf'[lastCall'.boards] = lastCall'.gameId
           /\ Len(events') > Len(events)
           /\ SubSeq(events', 1, Len(events)) = events
           /\ \E i \in (Len(events) + 1)..Len(events') :
                  events'[i] = [name |-> "NewGame", player |-> lastCall'.caller,
                                id |-> lastCall'.gameId, move |-> 0,
                                board |-> lastCall'.boards[4]])]_vars

\* C13 witness: a second game was started, with an opening whose first and
\* last boards differ, and its hash is recorded next to the first game's.
C13_Witness ==
    /\ lastCall.op = "startGame"
    /\ lastCall.err = "ok"
    /\ lastCall.boards[1] # lastCall.boards[4]
    /\ state[lastCall.gameId].board = lastCall.boards[4]
    /\ Cardinality(DOMAIN gameHashOf) = 2
    /\ Len(events) = 4

\* C14: a confirmation flag is set once and never cleared: every step keeps
\* the flags that were set, the flags change only by the slots the call
\* stores to, and no call stores to a slot that is already set.
C14_ConfirmedOnceNeverCleared ==
    [][/\ \A id \in GameIds : moveConfirmed[id] \subseteq moveConfirmed'[id]
       /\ lastCall'.wrote \cap moveConfirmed[lastCall'.gameId] = {}
       /\ moveConfirmed' =
              [moveConfirmed EXCEPT ![lastCall'.gameId] = @ \cup lastCall'.wrote]]_vars

\* C14 witness: two plays followed a start: the second stored the flag of
\* move 5 only, and the flags of moves 1 to 4 are still set.
C14_Witness ==
    /\ lastCall.op = "play"
    /\ lastCall.wrote = {5}
    /\ moveConfirmed[lastCall.gameId] = 1..5

\* C15: validateStartPosition accepts a board exactly when it has two
\* non-empty tiles, each of exponent 1 or 2, and 14 empty cells; boards with
\* no tile, one tile, three tiles, or a tile of exponent above 2 are rejected.
C15_StartPositionIff ==
    probe.startChecked =>
        /\ probe.startValid
             <=> /\ Cardinality({p \in 1..16 : probe.board[p] # 0}) = 2
                 /\ Cardinality({p \in 1..16 : probe.board[p] = 0}) = 14
                 /\ \A p \in 1..16 : probe.board[p] # 0 => probe.board[p] \in {1, 2}
        /\ probe.board \in {EmptyBoard, StartOneTile, StartThreeTiles,
                            StartBigTile, StartHugeTile} => ~probe.startValid
        /\ probe.board \in {StartCorners, StartTopRow, StartTwoFours}
               => probe.startValid

\* C15 witness: the check has rejected the board with tiles of exponents 1 and 3.
C15_Witness ==
    /\ probe.startChecked
    /\ probe.board = StartBigTile
    /\ ~probe.startValid

\* C16: conservation: every board accepted for a move has as many non-empty
\* tiles as the board before the move, minus the merges of the move, plus
\* one for the spawned tile.
C16_TileConservation ==
    probe.applied =>
        \A r \in probe.accepted :
            Cardinality({p \in 1..16 : r[p] # 0})
              = Cardinality({p \in 1..16 : probe.board[p] # 0})
                  - mergesOf(probe.board, probe.move) + 1

\* C16 witness: a move on a full board with one equal pair was accepted: one
\* merge, one spawn, and the board is full again.
C16_Witness ==
    /\ probe.applied
    /\ probe.board = FullOnePair
    /\ probe.move = LEFT
    /\ mergesOf(probe.board, probe.move) = 1
    /\ \E r \in probe.accepted : \A p \in 1..16 : r[p] # 0

\* the seed of the probed record puts a tile of exponent 1 in the second
\* empty cell of a board with `cells` empty cells
secondCellSeed(cells) ==
    /\ calculateSeed(probe.gameId, probe.nextMove) % cells = 1
    /\ calculateSeed(probe.gameId, probe.nextMove) % 10 # 9

\* C17 as stated: the board with exponent 1 at indices 0 and 15, moved LEFT
\* under a seed that spawns exponent 1 in the second empty cell, validates
\* against exactly the board with a merged tile of exponent 2 at index 0 and
\* the spawned tile (at index 2, the second of the 15 empty cells).
C17_CornersMerge ==
    (/\ probe.applied
     /\ probe.board = StartCorners
     /\ probe.move = LEFT
     /\ secondCellSeed(15)
     /\ secondCellSeed(14))
    => probe.accepted = {boardOf({<<0, 2>>, <<2, 1>>})}

\* C17 amended: indices 0 and 15 lie in different rows, so LEFT merges
\* nothing: the tile at index 15 travels to index 12, and the board validates
\* against exactly the board with exponent 1 at indices 0 and 12 and the
\* spawned tile of exponent 1 at index 2, the second of the 14 empty cells.
C17_CornersShiftWithinRows ==
    (/\ probe.applied
     /\ probe.board = StartCorners
     /\ probe.move = LEFT
     /\ secondCellSeed(14))
    => probe.accepted = {boardOf({<<0, 1>>, <<2, 1>>, <<12, 1>>})}

\* C17 witness: the scenario was probed under seed 1 and a board was accepted.
C17_Witness ==
    /\ probe.applied
    /\ probe.board = StartCorners
    /\ probe.move = LEFT
    /\ calculateSeed(probe.gameId, probe.nextMove) = 1
    /\ secondCellSeed(14)
    /\ probe.accepted # {}

\* the board r is `shifted` with one tile of exponent 1 or 2 in a cell that
\* is empty in `shifted`
oneSpawnOn(r, shifted) ==
    \E p \in 1..16 :
        /\ shifted[p] = 0
        /\ r[p] \in {1, 2}
        /\ \A q \in (1..16) \ {p} : r[q] = shifted[q]

\* the largest exponent on a board
maxTile(board) == CHOOSE e \in {board[p] : p \in 1..16} :
                      \A p \in 1..16 : board[p] <= e

\* C18: no chain merges: a line merges pairwise from its leading edge and a
\* merged tile is not merged again: [1,1,1,1] becomes [2,2,0,0], [1,1,2,0]
\* becomes [2,2,0,0], [1,1,1,0] becomes [2,1,0,0], and no accepted board holds
\* a tile more than one exponent above the largest tile before the move.
C18_NoChainMerges ==
    probe.applied =>
        /\ (probe.board = ChainRows /\ probe.move = LEFT) =>
               /\ probe.accepted # {}
               /\ \A r \in probe.accepted :
                      oneSpawnOn(r, <<2, 2, 0, 0,  3, 0, 0, 0,
                                      2, 2, 0, 0,  0, 0, 0, 0>>)
        /\ (probe.board = ChainGaps /\ probe.move = LEFT) =>
               /\ probe.accepted # {}
               /\ \A r \in probe.accepted :
                      oneSpawnOn(r, <<2, 1, 0, 0,  3, 0, 0, 0,
                                      0, 0, 0, 0,  0, 0, 0, 0>>)
        /\ \A r \in probe.accepted, p \in 1..16 :
               r[p] <= maxTile(probe.board) + 1

\* C18 witness: the board with rows [1,1,1,1] and [1,1,2,0] was moved LEFT
\* and a board whose rows 0 and 2 are both [2,2,..] was accepted.
C18_Witness ==
    /\ probe.applied
    /\ probe.board = ChainRows
    /\ probe.move = LEFT
    /\ \E r \in probe.accepted :
           /\ r[1] = 2 /\ r[2] = 2
           /\ r[9] = 2 /\ r[10] = 2

\* C19: getBoard, latestBoard, nextMove and isMoveConfirmed never fail and
\* change no record, hash, flag or event, for started and unstarted
\* identifiers alike; an unstarted identifier reads as the all-empty board,
\* move number 0 and unconfirmed; getBoard returns at each index i of 0..15
\* the tile i of the stored board, together with the stored next move number.
C19_ReadsArePure ==
    [][(lastCall'.op \in {"getBoard", "latestBoard", "nextMove", "isMoveConfirmed"})
       => (/\ UNCHANGED ledgerVars
           /\ lastCall'.err = "ok"
           /\ lastCall'.op = "getBoard" =>
                  /\ DOMAIN lastCall'.ret.boardArr = 0..15
                  /\ \A i \in 0..15 :
                         lastCall'.ret.boardArr[i] = state[lastCall'.gameId].board[i + 1]
                  /\ lastCall'.ret.number = state[lastCall'.gameId].nextMove
           /\ lastCall'.op = "latestBoard" =>
                  lastCall'.ret.board = state[lastCall'.gameId].board
           /\ lastCall'.op = "nextMove" =>
                  lastCall'.ret.number = state[lastCall'.gameId].nextMove
           /\ lastCall'.op = "isMoveConfirmed" =>
                  (lastCall'.ret.flag
                     <=> lastCall'.moves[1] \in moveConfirmed[lastCall'.gameId])
           /\ ~startedInLog(lastCall'.gameId) =>
                  /\ lastCall'.op = "getBoard" =>
                         \A i \in 0..15 : lastCall'.ret.boardArr[i] = 0
                  /\ lastCall'.op = "latestBoard" => lastCall'.ret.board = EmptyBoard
                  /\ lastCall'.op \in {"getBoard", "nextMove"} =>
                         lastCall'.ret.number = 0
                  /\ lastCall'.op = "isMoveConfirmed" => ~lastCall'.ret.flag)]_vars

\* C19 witness: getBoard read a game after its first play, returning move
\* number 5 and a board whose tiles are not mirror-symmetric, while the
\* other identifier is still unstarted.
C19_Witness ==
    /\ lastCall.op = "getBoard"
    /\ lastCall.ret.number = 5
    /\ \E i \in 0..15 : lastCall.ret.boardArr[i] # lastCall.ret.boardArr[15 - i]
    /\ \E id \in GameIds : ~startedInLog(id)

\* C20 as stated: startGame emits a MoveConfirmed event for each of the move
\* numbers 1, 2 and 3, so every move number whose confirmation flag is set
\* has a MoveConfirmed event of its game with that move number in the log.
\* startGame sets the flags of 1, 2 and 3 and emits MoveConfirmed for 3 only.
C20_EveryFlagHasEvent ==
    \A id \in GameIds :
        \A n \in moveConfirmed[id] :
            \E i \in 1..Len(events) :
                /\ events[i].name = "MoveConfirmed"
                /\ events[i].id = id
                /\ events[i].move = n

\* C21: an opening-hash entry is created once, by the successful startGame
\* that submits the opening, and never changes: every step keeps each entry
\* and the identifier it names, a step adds an entry only when it is a
\* successful startGame, and then exactly the entry of the submitted boards,
\* absent before and naming the started identifier.
C21_OpeningHashImmutable ==
    [][/\ \A h \in DOMAIN gameHashOf :
              h \in DOMAIN gameHashOf' /\ gameHashOf'[h] = gameHashOf[h]
       /\ DOMAIN gameHashOf' \ DOMAIN gameHashOf =
              IF lastCall'.op = "startGame" /\ lastCall'.err = "ok"
              THEN {lastCall'.boards} ELSE {}
       /\ \A h \in DOMAIN gameHashOf' \ DOMAIN gameHashOf :
              gameHashOf'[h] = lastCall'.gameId]_vars

\* C21 witness: two openings are recorded for two identifiers and a startGame
\* that submitted one of them again has failed.
C21_Witness ==
    /\ Cardinality(DOMAIN gameHashOf) = 2
    /\ Cardinality({gameHashOf[h] : h \in DOMAIN gameHashOf}) = 2
    /\ lastCall.op = "startGame"
    /\ lastCall.err # "ok"
    /\ lastCall.boards \in DOMAIN gameHashOf

\* C22: a game record is never deleted and changes only by validated
\* transitions: a record that exists still exists after every step, its
\* nextMove does not decrease, and its board changes only in a successful
\* play on its identifier whose new board validates from the old one under
\* the seed of the old move number.
C22_RecordOnlyAdvances ==
    [][\A id \in GameIds :
           state[id] # ZeroState =>
               /\ state'[id] # ZeroState
               /\ state'[id].nextMove >= state[id].nextMove
               /\ state'[id].board # state[id].board =>
                      /\ lastCall'.op = "play"
                      /\ lastCall'.gameId = id
                      /\ lastCall'.err = "ok"
                      /\ validateTransformation(state[id].board, lastCall'.moves[1],
                             state'[id].board,
                             calculateSeed(id, state[id].nextMove))]_vars

\* C22 witness: a startGame on a started identifier, with an opening not
\* used before, was rejected and the record that a play advanced to move
\* number 5 is still there.
C22_Witness ==
    /\ lastCall.op = "startGame"
    /\ lastCall.err = "GameIdUsed"
    /\ lastCall.boards \notin DOMAIN gameHashOf
    /\ state[lastCall.gameId].nextMove = 5

\* C23: for every identifier the confirmed move numbers are exactly the
\* numbers from 1 up to, not including, nextMove: none for an unstarted
\* identifier, 1, 2, 3 right after startGame, no gap and none at or above
\* nextMove.
C23_ConfirmedBelowNextMove ==
    /\ \A id \in GameIds :
           moveConfirmed[id] = 1..(state[id].nextMove - 1)
    /\ \A id \in GameIds : ~startedInLog(id) => moveConfirmed[id] = {}
    /\ (lastCall.op = "startGame" /\ lastCall.err = "ok")
           => moveConfirmed[lastCall.gameId] = {1, 2, 3}

\* C23 witness: one game has moves 1 to 5 confirmed and nextMove 6 while
\* the other identifier is unstarted.
C23_Witness ==
    \E id, other \in GameIds :
        /\ state[id].nextMove = 6
        /\ moveConfirmed[id] = 1..5
        /\ ~startedInLog(other)
        /\ moveConfirmed[other] = {}

\* no record holds a move number between 1 and 3, and a record with a move
\* number has its NewGame event in the log
C24_Inv ==
    \A id \in GameIds :
        /\ state[id].nextMove \notin 1..3
        /\ state[id] # ZeroState => startedInLog(id)

\* a play on an identifier without a NewGame event fails and changes nothing
C24_Step ==
    (lastCall'.op = "play" /\ ~startedInLog(lastCall'.gameId))
    => (lastCall'.err # "ok" /\ UNCHANGED ledgerVars)

\* C24: play on an identifier on which no startGame has succeeded never
\* succeeds, whatever the move and the submitted board, so a game leaves
\* the unstarted state only through startGame and no record ever has a
\* nextMove between 1 and 3.
C24_UnstartedPlayNeverSucceeds == []C24_Inv /\ [][C24_Step]_vars

\* C24 witness: the owner's play of a direction on their unstarted
\* identifier, submitting a board with one tile, was rejected by the
\* transition check.
C24_Witness ==
    /\ lastCall.op = "play"
    /\ lastCall.caller = playerOf(lastCall.gameId)
    /\ ~startedInLog(lastCall.gameId)
    /\ lastCall.moves[1] \in Moves
    /\ lastCall.boards[1] # EmptyBoard
    /\ lastCall.err = "GameBoardInvalid"
    /\ state[lastCall.gameId] = ZeroState

\* C25: the stored board of a started game has at least two non-empty
\* tiles after startGame and after every successful play, so the stored
\* board is the zero word exactly for the identifiers that are unstarted.
C25_ActiveBoardNeverZero ==
    \A id \in GameIds :
        /\ startedInLog(id) =>
               Cardinality({p \in 1..16 : state[id].board[p] # 0}) >= 2
        /\ state[id].board = EmptyBoard <=> ~startedInLog(id)

\* C25 witness: a game two plays past its opening holds a board on which a
\* merge has happened, and the other identifier still reads as the zero word.
C25_Witness ==
    \E id, other \in GameIds :
        /\ state[id].nextMove = 6
        /\ \E p \in 1..16 : state[id].board[p] >= 2
        /\ Cardinality({p \in 1..16 : state[id].board[p] # 0}) >= 2
        /\ ~startedInLog(other)
        /\ state[other].board = EmptyBoard

\* the move numbers of the MoveConfirmed events of an identifier, in log order
confirmedInLog(gameId) ==
    SelectSeq(events, LAMBDA e : e.name = "MoveConfirmed" /\ e.id = gameId)

\* C26: in the event log, for every identifier, the NewGame event comes
\* before every NewMove and MoveConfirmed event of the identifier, there is
\* at most one NewGame, and the MoveConfirmed events carry the move numbers
\* 3, 4, 5, ... in this order, without repeat or gap.
C26_EventOrder ==
    \A id \in GameIds :
        /\ Cardinality({i \in 1..Len(events) :
               events[i].name = "NewGame" /\ events[i].id = id}) <= 1
        /\ \A i \in 1..Len(events) :
               (events[i].id = id /\ events[i].name \in {"NewMove", "MoveConfirmed"})
               => \E j \in 1..(i - 1) :
                      events[j].name = "NewGame" /\ events[j].id = id
        /\ \A k \in 1..Len(confirmedInLog(id)) :
               confirmedInLog(id)[k].move = k + 2

\* C26 witness: the log of a start followed by two plays: NewGame, then
\* MoveConfirmed 3, 4 and 5 with the NewMove events in between.
C26_Witness ==
    /\ Len(events) = 6
    /\ events[1].name = "NewGame"
    /\ \E id \in GameIds :
           /\ Len(confirmedInLog(id)) = 3
           /\ confirmedInLog(id)[3].move = 5

\* C27: whenever a move changes the board (merged = true) the post-shift
\* board has an empty cell, so the spawn of the transition check always has
\* a cell to choose and a board is accepted; a post-shift board without an
\* empty cell arises only from a move that is blocked, and nothing is
\* accepted then.
C27_MergedLeavesEmptyCell ==
    (probe.applied /\ probe.move \in Moves) =>
        /\ simulateMove(probe.board, probe.move).merged =>
               /\ \E p \in 1..16 : simulateMove(probe.board, probe.move).board[p] = 0
               /\ Len(simulateMove(probe.board, probe.move).empty) >= 1
               /\ probe.accepted # {}
        /\ (\A p \in 1..16 : simulateMove(probe.board, probe.move).board[p] # 0) =>
               /\ ~simulateMove(probe.board, probe.move).merged
               /\ probe.accepted = {}

\* C27 witness: a full board whose only equal pair lies in row 0 was moved
\* LEFT: the merge frees exactly one cell and a board was accepted.
C27_Witness ==
    /\ probe.applied
    /\ probe.board = FullOnePair
    /\ probe.move = LEFT
    /\ simulateMove(probe.board, probe.move).merged
    /\ Len(simulateMove(probe.board, probe.move).empty) = 1
    /\ probe.accepted # {}

\* C28: a startGame or play on an identifier, successful or not, leaves the
\* record and the confirmation flags of every other identifier unchanged;
\* across games it can only add one opening-hash entry.
C28_OtherGamesUntouched ==
    [][(lastCall'.op \in {"startGame", "play"})
       => (/\ \A id \in GameIds \ {lastCall'.gameId} :
                  /\ state'[id] = state[id]
                  /\ moveConfirmed'[id] = moveConfirmed[id]
           /\ \A h \in DOMAIN gameHashOf :
                  h \in DOMAIN gameHashOf' /\ gameHashOf'[h] = gameHashOf[h]
           /\ Cardinality(DOMAIN gameHashOf' \ DOMAIN gameHashOf) <= 1)]_vars

\* C28 witness: a second game was started while the first, one play past
\* its opening, kept its record and its flags 1 to 4.
C28_Witness ==
    /\ lastCall.op = "startGame"
    /\ lastCall.err = "ok"
    /\ \E id \in GameIds \ {lastCall.gameId} :
           /\ state[id].nextMove = 5
           /\ moveConfirmed[id] = 1..4

\* the positions of the fetch attempts in the log of the request
fetchesInLog == {i \in 1..Len(request.log) : request.log[i].ev = "fetch"}

\* C29 as stated: for retries >= 0 at most retries + 1 attempts are made,
\* and the first attempt whose response is ok (whether its body parses or
\* not) is the last thing the call does: it returns the parsed body.
C29_StopsAtFirstOkResponse ==
    request.retriesHalves >= 0 =>
        /\ 2 * Cardinality(fetchesInLog) <= request.retriesHalves + 2
        /\ \A i \in fetchesInLog :
               request.log[i].outcome \in {"json", "badBody"} =>
                   /\ i = Len(request.log)
                   /\ request.result.kind = "resolved"

\* C29 amended: for retries >= 0 at most retries + 1 attempts are made; the
\* call stops at the first attempt whose response is ok and whose body
\* parses, and resolves with that body; an attempt that fails, by a rejected
\* fetch, a response that is not ok, or an ok response whose body does not
\* parse, is followed by the delay, or rejects the call if it was the last.
C29_StopsAtFirstParsedResponse ==
    request.retriesHalves >= 0 =>
        /\ 2 * Cardinality(fetchesInLog) <= request.retriesHalves + 2
        /\ \A i \in fetchesInLog :
               request.log[i].outcome = "json" =>
                   /\ i = Len(request.log)
                   /\ request.result =
                          [kind |-> "resolved",
                           value |-> [attempt |-> request.log[i].attempt,
                                      kind |-> "body"]]
        /\ request.result.kind = "resolved" =>
               /\ Len(request.log) \in fetchesInLog
               /\ request.log[Len(request.log)].outcome = "json"
        /\ \A i \in fetchesInLog :
               request.log[i].outcome \in {"badBody", "httpError", "networkError"} =>
                   IF i < Len(request.log)
                   THEN request.log[i + 1].ev = "wait"
                   ELSE \/ request.phase = "waiting"
                        \/ /\ request.phase = "settled"
                           /\ request.result.kind = "rejected"
                           /\ request.result.value.attempt = request.log[i].attempt

\* C29 witness: a call resolved with the body of its third attempt after a
\* response that was not ok and an ok response whose body did not parse.
C29_Witness ==
    /\ request.retriesHalves >= 0
    /\ request.result.kind = "resolved"
    /\ request.result.value.attempt = 2
    /\ \E i, j \in fetchesInLog :
           /\ request.log[i].outcome = "httpError"
           /\ request.log[j].outcome = "badBody"

\* C30: with a whole number of retries, a call of which all retries + 1
\* attempts have failed rejects with the error of the last attempt; the log
\* alternates attempts and delays of retryDelay, with one delay between two
\* consecutive attempts and none after the last attempt.
C30_RejectsWithLastError ==
    (/\ request.retriesHalves >= 0
     /\ request.retriesHalves % 2 = 0
     /\ request.result.kind = "rejected")
    => /\ 2 * Cardinality(fetchesInLog) = request.retriesHalves + 2
       /\ Len(request.log) \in fetchesInLog
       /\ request.result.value.attempt = request.log[Len(request.log)].attempt
       /\ request.result.value.kind = request.log[Len(request.log)].outcome
       /\ 2 * request.result.value.attempt = request.retriesHalves
       /\ Len(request.log) = request.retriesHalves + 1
       /\ \A i \in 1..Len(request.log) :
              IF i % 2 = 1
              THEN /\ request.log[i].ev = "fetch"
                   /\ request.log[i].outcome # "json"
                   /\ 2 * request.log[i].attempt = i - 1
              ELSE /\ request.log[i].ev = "wait"
                   /\ request.log[i].delay = request.retryDelay

\* C30 witness: a post with retries 2 and retryDelay 2000 was rejected with
\* the network error of its third attempt after an HTTP error in its first.
C30_Witness ==
    /\ request.method = "POST"
    /\ request.retriesHalves = 4
    /\ request.retryDelay = 2000
    /\ request.result.kind = "rejected"
    /\ request.log[1].outcome = "httpError"
    /\ request.result.value = [attempt |-> 2, kind |-> "networkError"]

\* C34: getCurrentGasPrices returns maxFeePerGas strictly above
\* maxPriorityFeePerGas for every non-negative base fee and gas price the
\* network reports, a missing or zero base fee counting as 1 gwei, and on the
\* fallback path taken when a network query fails.
C34_MaxFeeAbovePriorityFee ==
    gas.applied =>
        /\ gas.prices.maxFeePerGas > gas.prices.maxPriorityFeePerGas
        /\ gas.prices.maxPriorityFeePerGas > 0
        /\ (~gas.failed /\ gas.blockBaseFee \in {NoBaseFee, 0}) =>
               /\ gas.prices.maxPriorityFeePerGas = 2 * Gwei
               /\ gas.prices.maxFeePerGas >= 4 * Gwei

\* C34 witness: the network reported a block without base fee and a gas
\* price of 0, and the prices returned are 4 gwei and 2 gwei.
C34_Witness ==
    /\ gas.applied
    /\ ~gas.failed
    /\ gas.blockBaseFee = NoBaseFee
    /\ gas.gasPrice = 0
    /\ gas.prices = [maxFeePerGas |-> 4 * Gwei, maxPriorityFeePerGas |-> 2 * Gwei]

\* the calls that reached sendRawTransactionAndConfirm
sentCalls == {c \in DOMAIN hook.calls : hook.calls[c].nonce # NoNonce}

\* C31: sendRawTransactionAndConfirm returns normally, with the 'Confirmed
\* transaction' toast, only after the 'Sent transaction' toast and only if
\* the RPC response carried no error and the receipt is not reverted; in
\* every other case (no wallet client, no user address, RPC error, exhausted
\* retries, reverted receipt) it shows the error toast and rejects with that
\* error, and never shows the success toast.
C31_ConfirmedOnlyAfterSentElseRejected ==
    \A c \in sentCalls :
        /\ hook.calls[c].outcome = "returned" =>
               /\ hook.calls[c].toasts = <<"info", "success">>
               /\ hook.calls[c].response = "result"
               /\ hook.calls[c].receipt = "success"
        /\ (\E t \in DOMAIN hook.calls[c].toasts :
                hook.calls[c].toasts[t] = "success") =>
               hook.calls[c].outcome = "returned"
        /\ (/\ hook.calls[c].phase = "done"
            /\ ~(hook.calls[c].response = "result" /\ hook.calls[c].receipt = "success")) =>
               /\ hook.calls[c].outcome = "rejected"
               /\ hook.calls[c].toasts \in {<<"error">>, <<"info", "error">>}
               /\ hook.calls[c].shown = hook.calls[c].error
               /\ hook.calls[c].error # "none"
        /\ hook.calls[c].phase # "done" =>
               /\ hook.calls[c].outcome = "pending"
               /\ hook.calls[c].toasts =
                      IF hook.calls[c].phase = "confirming" THEN <<"info">> ELSE <<>>

\* C31 witness: one transaction was sent and confirmed, and a later one was
\* sent, came back reverted and was rejected after the error toast.
C31_Witness ==
    \E c, d \in sentCalls :
        /\ hook.calls[c].outcome = "returned"
        /\ hook.calls[c].toasts = <<"info", "success">>
        /\ hook.calls[d].outcome = "rejected"
        /\ hook.calls[d].receipt = "reverted"
        /\ hook.calls[d].toasts = <<"info", "error">>
        /\ hook.calls[d].error = "Failed to confirm transaction"

\* the place in the history of the last reset completed before place i, or 0
lastResetBefore(i) ==
    IF \E j \in 1..(i - 1) : hook.history[j].kind = "reset"
    THEN CHOOSE j \in 1..(i - 1) :
             /\ hook.history[j].kind = "reset"
             /\ \A k \in (j + 1)..(i - 1) : hook.history[k].kind # "reset"
    ELSE 0

\* the local nonce that reset left (0 before the first reset)
nonceAfterReset(j) == IF j = 0 THEN 0 ELSE hook.history[j].nonce

\* nonces taken between places j and i of the history
takenBetween(j, i) ==
    Cardinality({k \in (j + 1)..(i - 1) : hook.history[k].kind = "take"})

C32_Inv ==
    /\ \A i \in DOMAIN hook.history :
           /\ hook.history[i].kind = "take" =>
                  /\ hook.history[i].nonce =
                         nonceAfterReset(lastResetBefore(i))
                             + takenBetween(lastResetBefore(i), i)
                  /\ hook.calls[hook.history[i].call].nonce = hook.history[i].nonce
           /\ hook.history[i].kind = "sign" =>
                  hook.calls[hook.history[i].call].nonce = hook.history[i].nonce
    /\ \A c \in DOMAIN hook.calls :
           hook.calls[c].nonce = NoNonce =>
               /\ hook.calls[c].outcome = "rejected"
               /\ hook.calls[c].response = "none"
               /\ \A i \in DOMAIN hook.history : hook.history[i].call # c

resetsDone(h) == Cardinality({i \in DOMAIN h.history : h.history[i].kind = "reset"})

C32_Step ==
    /\ Len(hook'.calls) = Len(hook.calls) + 1 =>
           IF hook.userBalance < MinBalance
           THEN /\ hook'.userNonce = hook.userNonce
                /\ hook'.userBalance = hook.userBalance
                /\ hook'.history = hook.history
                /\ hook'.calls[Len(hook'.calls)].nonce = NoNonce
           ELSE /\ hook'.userNonce = hook.userNonce + 1
                /\ hook'.calls[Len(hook'.calls)].nonce = hook.userNonce
    /\ (Len(hook'.calls) = Len(hook.calls) /\ resetsDone(hook') = resetsDone(hook)) =>
           /\ hook'.userNonce = hook.userNonce
           /\ hook'.userBalance = hook.userBalance

\* C32: between two completions of resetNonceAndBalance, every call of
\* initializeGameTransaction or playNewMoveTransaction that passes the
\* balance check takes the local nonce and advances it by one in the same
\* step, so the k-th such call signs with n0 + k - 1 also when calls overlap,
\* and a failing transaction does not roll the counter back; a call stopped
\* by the balance check changes neither nonce nor balance and sends nothing.
C32_NonceTakenAndAdvancedOnce == []C32_Inv /\ [][C32_Step]_vars

\* C32 witness: after a reset the first call failed at the RPC, the second
\* is still awaiting its receipt, and the third took the third nonce.
C32_Witness ==
    /\ Len(hook.calls) = 3
    /\ resetsDone(hook) = 1
    /\ hook.calls[1].outcome = "rejected"
    /\ hook.calls[1].error = "rpc"
    /\ hook.calls[2].phase = "confirming"
    /\ hook.calls[2].nonce = hook.calls[1].nonce + 1
    /\ hook.calls[3].nonce = hook.calls[1].nonce + 2
    /\ hook.calls[3].phase = "signing"
    /\ hook.userNonce = hook.calls[1].nonce + 3

\* C33: no two transactions handed to the signer within one session carry
\* the same nonce, also when resetNonceAndBalance runs while transactions
\* are being sent or await their receipt.
C33_SignerNoncesDistinct ==
    \A i, j \in DOMAIN hook.history :
        (/\ i < j
         /\ hook.history[i].kind = "sign"
         /\ hook.history[j].kind = "sign") =>
            hook.history[i].nonce # hook.history[j].nonce

\* two transactions with one nonce, both sent and awaiting their receipt,
\* the second signed after a reset that ran while the first was in flight
duplicateInFlight ==
    \E c, d \in sentCalls :
        /\ c < d
        /\ hook.calls[c].nonce = hook.calls[d].nonce
        /\ hook.calls[c].phase = "confirming"
        /\ hook.calls[d].phase = "confirming"

====
